---- MODULE Spec2Model ----
(***************************************************************************)
(* Authentication controller (src/controllers/authController.ts):          *)
(* registration, per-role login, unified login, current-user lookup,       *)
(* change password, request password reset and reset password, over the    *)
(* three account partitions JobSeeker, Employer and Admin.                 *)
(*                                                                         *)
(* Spec      : every handler runs to completion before the next starts.    *)
(* SpecRace  : registrations run concurrently, one step per await.         *)
(***************************************************************************)
EXTENDS Integers, Sequences, FiniteSets, TLC

VARIABLES
    store,          \* the credential store: partition -> sequence of rows (row index = id)
    now,            \* the wall clock read by Date.now() / new Date(), in ms
    req,            \* the inputs of the handler invocation that ran last
    resp,           \* what that invocation answered (res.status().json() or next(error))
    nextToken,      \* the next value crypto.randomBytes yields (fresh every time)
    lastPw,         \* history: partition -> per id, the clear password set last
    consumed,       \* history: the reset tokens a successful resetPassword consumed
    regs,           \* SpecRace: the in-flight registration requests
    clock           \* SpecRace: logical clock over the store accesses of registrations

vars == <<store, now, req, resp, nextToken, lastPw, consumed, regs, clock>>

----------------------------------------------------------------------------
(* Bounds of the model *)

MaxTokens == 2
MaxTime == 900000

(* Input domains *)

Emails == {"a@x.com", "b@x.com"}
Passwords == {"pw1", "pw2"}
Salts == {"s2"}
Roles == {"employer", "jobSeeker", "admin"}
Slots == {1, 2}

----------------------------------------------------------------------------
(* The store *)

Partitions == {"JobSeeker", "Employer", "Admin"}

NullToken == 0
NullTime == -1
NullRow == 0

ResetWindowMs == 15 * 60 * 1000

\* bcrypt.hash(password, salt): the salt is kept in the hash, the digest depends on both
Hash(password, salt) == [salt |-> salt, digest |-> <<salt, password>>]

\* bcrypt.compare(password, hash): re-hash with the salt of the stored hash
Compare(password, hash) == Hash(password, hash.salt) = hash

\* Model.create({email, password: hashedPassword, ...}): a new row with the column defaults
NewRow(email, hashedPassword) ==
    [email |-> email, password |-> hashedPassword, deleted |-> FALSE, role |-> "",
     reset_token |-> NullToken, token_expiry |-> NullTime, modified |-> NullTime]

\* Model.findOne({ where: { email } }): the first row with that email, or null
FindOne(rows, email) ==
    IF \E i \in 1..Len(rows) : rows[i].email = email
    THEN CHOOSE i \in 1..Len(rows) :
            /\ rows[i].email = email
            /\ \A j \in 1..(i - 1) : rows[j].email # email
    ELSE NullRow

\* Model.findByPk(id)
FindByPk(rows, id) == IF id \in 1..Len(rows) THEN id ELSE NullRow

\* faulty variant: Op.gte in place of Op.gt
TokenMatchesAtExpiry(row, token, t) ==
    /\ row.reset_token = token
    /\ row.token_expiry # NullTime
    /\ row.token_expiry >= t

\* where: { reset_token: token, token_expiry: { [Op.gt]: new Date() } }
\* (a NULL token_expiry compares greater than nothing)
TokenMatches(row, token, t) ==
    /\ row.reset_token = token
    /\ row.token_expiry # NullTime
    /\ row.token_expiry > t

\* Model.findOne({ where: { reset_token, token_expiry > now } })
FindOneByToken(rows, token, t) ==
    IF \E i \in 1..Len(rows) : TokenMatches(rows[i], token, t)
    THEN CHOOSE i \in 1..Len(rows) :
            /\ TokenMatches(rows[i], token, t)
            /\ \A j \in 1..(i - 1) : ~TokenMatches(rows[j], token, t)
    ELSE NullRow

\* const Model = role === "employer" ? Employer : JobSeeker
ModelOf(role) == IF role = "employer" THEN "Employer" ELSE "JobSeeker"

\* new Date(Date.now() + 15 * 60 * 1000)
ExpiryFrom(t) == t + ResetWindowMs

\* String.prototype.toLowerCase on the role labels in use
ToLowerCase(s) ==
    CASE s = "JobSeeker" -> "jobseeker"
      [] s = "Employer" -> "employer"
      [] s = "Admin" -> "admin"
      [] s = "SuperAdmin" -> "superadmin"
      [] OTHER -> s

----------------------------------------------------------------------------
(* Requests, responses, tokens *)

NoToken == [id |-> 0, email |-> "", role |-> ""]
NoUser == [partition |-> "", id |-> 0]

\* generateToken(user, role): jwt.sign({id, email, role})
GenerateToken(id, email, role) == [id |-> id, email |-> email, role |-> role]

NoReq ==
    [handler |-> "", email |-> "", password |-> "", newPassword |-> "", role |-> "",
     token |-> NullToken, user |-> NoToken, verifyOk |-> TRUE, sendOk |-> TRUE]

NoResp ==
    [status |-> 0, error |-> "", message |-> "", role |-> "", user |-> NoUser,
     token |-> NoToken, log |-> ""]

\* throw new XError(message), caught and handed to next(error)
Throw(kind, message) == [NoResp EXCEPT !.error = kind, !.message = message]

\* res.status(status).json({ success: false, message })
Refuse(status, message) == [NoResp EXCEPT !.status = status, !.message = message]

\* res.status(status).json({ success: true, data: { role, user, token } })
Grant(status, role, partition, id, token) ==
    [NoResp EXCEPT !.status = status, !.role = role,
                   !.user = [partition |-> partition, id |-> id], !.token = token]

IsError(r) == r.error # "" \/ r.status >= 400

----------------------------------------------------------------------------
(* Initial stores: rows that exist before any request of this controller.   *)
(* Admin rows are never created here, and the deleted flag is never set     *)
(* here, so both come with the store.                                       *)

SeedPassword == Hash("pw1", "s1")

SeedRow(email, deleted, label) ==
    [NewRow(email, SeedPassword) EXCEPT !.deleted = deleted, !.role = label]

\* a soft-deleted JobSeeker or Employer row
DeletedSeed == SeedRow("a@x.com", TRUE, "")

\* an Admin row without a role label
PlainAdmin == SeedRow("b@x.com", FALSE, "")

\* an Admin row with a role label; the Admin branches read email, password and role
\* only, whatever the row's other columns hold
LabelledAdmin == SeedRow("b@x.com", TRUE, "SuperAdmin")

\* every row of the store, as <<partition, id>>
RowsOf(s) == UNION {{<<p, i>> : i \in 1..Len(s[p])} : p \in Partitions}

EmailsUnique(s) ==
    \A x \in RowsOf(s), y \in RowsOf(s) :
        s[x[1]][x[2]].email = s[y[1]][y[2]].email => x = y

SeedStore(jobSeekers, employers, admins) ==
    [p \in Partitions |->
        CASE p = "JobSeeker" -> jobSeekers
          [] p = "Employer" -> employers
          [] OTHER -> admins]

SeedStores ==
    {SeedStore(<<>>, <<>>, <<PlainAdmin>>),
     SeedStore(<<DeletedSeed>>, <<>>, <<LabelledAdmin>>),
     SeedStore(<<>>, <<DeletedSeed>>, <<PlainAdmin>>)}

IdleReg ==
    [pc |-> "idle", kind |-> "", email |-> "", password |-> "", salt |-> "",
     existingJobSeeker |-> NullRow, existingEmployer |-> NullRow, existingAdmin |-> NullRow,
     tJobSeeker |-> 0, tEmployer |-> 0, tAdmin |-> 0, tCreate |-> 0, id |-> 0]

Init ==
    /\ store \in SeedStores
    /\ now = 0
    /\ req = NoReq
    /\ resp = NoResp
    /\ nextToken = 1
    /\ lastPw = [p \in Partitions |-> [i \in 1..Len(store[p]) |-> "pw1"]]
    /\ consumed = {}
    /\ regs = [i \in Slots |-> IdleReg]
    /\ clock = 0

----------------------------------------------------------------------------
(* What a handler leaves behind *)

Answer(request, response) ==
    /\ req' = request
    /\ resp' = response

----------------------------------------------------------------------------
(* Registration *)

\* faulty variant: the Admin partition is left out of the check
EmailExistsNoAdmin(existingJobSeeker, existingEmployer, existingAdmin) ==
    existingJobSeeker # NullRow \/ existingEmployer # NullRow

\* faulty variant: the Employer partition is left out of the check
EmailExistsNoEmployer(existingJobSeeker, existingEmployer, existingAdmin) ==
    existingJobSeeker # NullRow \/ existingAdmin # NullRow

\* if (existingJobSeeker || existingEmployer || existingAdmin)
EmailExists(existingJobSeeker, existingEmployer, existingAdmin) ==
    existingJobSeeker # NullRow \/ existingEmployer # NullRow \/ existingAdmin # NullRow

AlreadyRegistered == Throw("BadRequest", "Email is already registered")

\* Model.create(...), generateToken(row, role), res.status(201)
Created(s, partition, role, email) ==
    Grant(201, "", partition, Len(s[partition]) + 1,
          GenerateToken(Len(s[partition]) + 1, email, role))

Register(handler, partition, role, email, password, salt) ==
    LET request == [NoReq EXCEPT !.handler = handler, !.email = email, !.password = password]
        existingJobSeeker == FindOne(store["JobSeeker"], email)
        existingEmployer == FindOne(store["Employer"], email)
        existingAdmin == FindOne(store["Admin"], email)
    IN  IF EmailExists(existingJobSeeker, existingEmployer, existingAdmin)
        THEN /\ Answer(request, AlreadyRegistered)
             /\ UNCHANGED <<store, lastPw>>
        ELSE /\ store' = [store EXCEPT ![partition] = Append(@, NewRow(email, Hash(password, salt)))]
             /\ lastPw' = [lastPw EXCEPT ![partition] = Append(@, password)]
             /\ Answer(request, Created(store, partition, role, email))

RegisterJobSeeker(email, password, salt) ==
    /\ Register("registerJobSeeker", "JobSeeker", "jobSeeker", email, password, salt)
    /\ UNCHANGED <<now, nextToken, consumed, regs, clock>>

RegisterEmployer(email, password, salt) ==
    /\ Register("registerEmployer", "Employer", "employer", email, password, salt)
    /\ UNCHANGED <<now, nextToken, consumed, regs, clock>>

----------------------------------------------------------------------------
(* Login *)

\* faulty variant: an unknown email gets a message of its own
UnknownEmailTold == Throw("Unauthorized", "Email not found")

\* if (!user) throw new UnauthorizedError('Invalid credentials')
UnknownEmail == Throw("Unauthorized", "Invalid credentials")

\* if (user.deleted) throw new UnauthorizedError('Account deactivated')
Deactivated == Throw("Unauthorized", "Account deactivated")

\* if (!isMatch) throw new UnauthorizedError('Invalid credentials')
WrongPassword == Throw("Unauthorized", "Invalid credentials")

\* faulty variant: the deleted check is left out
IsDeletedIgnored(row) == FALSE

\* the deleted check of the JobSeeker and Employer branches
IsDeleted(row) == row.deleted

LoginJobSeekerResult(s, email, password) ==
    LET jobSeeker == FindOne(s["JobSeeker"], email)
    IN  IF jobSeeker = NullRow THEN UnknownEmail
        ELSE IF IsDeleted(s["JobSeeker"][jobSeeker]) THEN Deactivated
        ELSE IF ~Compare(password, s["JobSeeker"][jobSeeker].password) THEN WrongPassword
        ELSE Grant(200, "JobSeeker", "JobSeeker", jobSeeker,
                   GenerateToken(jobSeeker, email, "jobseeker"))

LoginEmployerResult(s, email, password) ==
    LET employer == FindOne(s["Employer"], email)
    IN  IF employer = NullRow THEN UnknownEmail
        ELSE IF IsDeleted(s["Employer"][employer]) THEN Deactivated
        ELSE IF ~Compare(password, s["Employer"][employer].password) THEN WrongPassword
        ELSE Grant(200, "Employer", "Employer", employer,
                   GenerateToken(employer, email, "employer"))

LoginAdminResult(s, email, password) ==
    LET admin == FindOne(s["Admin"], email)
    IN  IF admin = NullRow THEN UnknownEmail
        ELSE IF ~Compare(password, s["Admin"][admin].password) THEN WrongPassword
        ELSE Grant(200, s["Admin"][admin].role, "Admin", admin,
                   GenerateToken(admin, email, "admin"))

\* role = user.role || 'Admin'
AdminRole(row) == IF row.role # "" THEN row.role ELSE "Admin"

\* faulty variant: a failed password check in one partition falls through to the next
UnifiedLoginFallsThrough(s, email, password) ==
    LET jobSeeker == FindOne(s["JobSeeker"], email)
        employer == FindOne(s["Employer"], email)
        admin == FindOne(s["Admin"], email)
    IN  IF /\ jobSeeker # NullRow
           /\ ~IsDeleted(s["JobSeeker"][jobSeeker])
           /\ Compare(password, s["JobSeeker"][jobSeeker].password)
        THEN Grant(200, "JobSeeker", "JobSeeker", jobSeeker,
                   GenerateToken(jobSeeker, email, ToLowerCase("JobSeeker")))
        ELSE IF /\ employer # NullRow
                /\ ~IsDeleted(s["Employer"][employer])
                /\ Compare(password, s["Employer"][employer].password)
        THEN Grant(200, "Employer", "Employer", employer,
                   GenerateToken(employer, email, ToLowerCase("Employer")))
        ELSE IF admin # NullRow /\ Compare(password, s["Admin"][admin].password)
        THEN Grant(200, AdminRole(s["Admin"][admin]), "Admin", admin,
                   GenerateToken(admin, email, ToLowerCase(AdminRole(s["Admin"][admin]))))
        ELSE WrongPassword

UnifiedLoginResult(s, email, password) ==
    LET jobSeeker == FindOne(s["JobSeeker"], email)
        employer == FindOne(s["Employer"], email)
        admin == FindOne(s["Admin"], email)
    IN  IF jobSeeker # NullRow
        THEN IF IsDeleted(s["JobSeeker"][jobSeeker]) THEN Deactivated
             ELSE IF ~Compare(password, s["JobSeeker"][jobSeeker].password) THEN WrongPassword
             ELSE Grant(200, "JobSeeker", "JobSeeker", jobSeeker,
                        GenerateToken(jobSeeker, email, ToLowerCase("JobSeeker")))
        ELSE IF employer # NullRow
        THEN IF IsDeleted(s["Employer"][employer]) THEN Deactivated
             ELSE IF ~Compare(password, s["Employer"][employer].password) THEN WrongPassword
             ELSE Grant(200, "Employer", "Employer", employer,
                        GenerateToken(employer, email, ToLowerCase("Employer")))
        ELSE IF admin # NullRow
        THEN IF ~Compare(password, s["Admin"][admin].password) THEN WrongPassword
             ELSE Grant(200, AdminRole(s["Admin"][admin]), "Admin", admin,
                        GenerateToken(admin, email, ToLowerCase(AdminRole(s["Admin"][admin]))))
        ELSE UnknownEmail

LoginRequest(handler, email, password) ==
    [NoReq EXCEPT !.handler = handler, !.email = email, !.password = password]

LoginJobSeeker(email, password) ==
    /\ Answer(LoginRequest("loginJobSeeker", email, password),
              LoginJobSeekerResult(store, email, password))
    /\ UNCHANGED <<store, now, nextToken, lastPw, consumed, regs, clock>>

LoginEmployer(email, password) ==
    /\ Answer(LoginRequest("loginEmployer", email, password),
              LoginEmployerResult(store, email, password))
    /\ UNCHANGED <<store, now, nextToken, lastPw, consumed, regs, clock>>

LoginAdmin(email, password) ==
    /\ Answer(LoginRequest("loginAdmin", email, password),
              LoginAdminResult(store, email, password))
    /\ UNCHANGED <<store, now, nextToken, lastPw, consumed, regs, clock>>

UnifiedLogin(email, password) ==
    /\ Answer(LoginRequest("unifiedLogin", email, password),
              UnifiedLoginResult(store, email, password))
    /\ UNCHANGED <<store, now, nextToken, lastPw, consumed, regs, clock>>

----------------------------------------------------------------------------
(* Current user and change password: req.user = {id, role} of the token     *)
(* the authentication middleware verified.  The client presents the token   *)
(* of the response it has just received.                                    *)

\* switch (role) { case 'admin' / 'employer' / 'jobSeeker' / default }
DispatchPartition(role) ==
    CASE role = "admin" -> "Admin"
      [] role = "employer" -> "Employer"
      [] role = "jobSeeker" -> "JobSeeker"
      [] OTHER -> ""

InvalidRole == Throw("Unauthorized", "Invalid role")
UserNotFound == Throw("NotFound", "User not found")

GetCurrentUserResult(s, id, role) ==
    LET partition == DispatchPartition(role)
    IN  IF partition = "" THEN InvalidRole
        ELSE IF FindByPk(s[partition], id) = NullRow THEN UserNotFound
        ELSE [NoResp EXCEPT !.status = 200,
                            !.user = [partition |-> partition, id |-> FindByPk(s[partition], id)]]

GetCurrentUser ==
    /\ resp.token # NoToken
    /\ Answer([NoReq EXCEPT !.handler = "getCurrentUser", !.user = resp.token],
              GetCurrentUserResult(store, resp.token.id, resp.token.role))
    /\ UNCHANGED <<store, now, nextToken, lastPw, consumed, regs, clock>>

\* faulty variant: the new hash is never assigned
SavePasswordStale(s, partition, id, hashedPassword, t) ==
    [s EXCEPT ![partition][id].modified = t]

\* user.password = hashedPassword; user.modified = new Date(); await user.save()
SavePassword(s, partition, id, hashedPassword, t) ==
    [s EXCEPT ![partition][id].password = hashedPassword, ![partition][id].modified = t]

ChangePassword(currentPassword, newPassword, salt) ==
    LET request == [NoReq EXCEPT !.handler = "changePassword", !.user = resp.token,
                                 !.password = currentPassword, !.newPassword = newPassword]
        partition == DispatchPartition(resp.token.role)
        user == IF partition = "" THEN NullRow ELSE FindByPk(store[partition], resp.token.id)
    IN  /\ resp.token # NoToken
        /\ IF partition = ""
           THEN /\ Answer(request, InvalidRole)
                /\ UNCHANGED <<store, lastPw>>
           ELSE IF user = NullRow
           THEN /\ Answer(request, UserNotFound)
                /\ UNCHANGED <<store, lastPw>>
           ELSE IF ~Compare(currentPassword, store[partition][user].password)
           THEN /\ Answer(request, Throw("Unauthorized", "Current password is incorrect"))
                /\ UNCHANGED <<store, lastPw>>
           ELSE /\ store' = SavePassword(store, partition, user, Hash(newPassword, salt), now)
                /\ lastPw' = [lastPw EXCEPT ![partition][user] = newPassword]
                /\ Answer(request, [NoResp EXCEPT !.status = 200,
                                                  !.message = "Password updated successfully"])
        /\ UNCHANGED <<now, nextToken, consumed, regs, clock>>

----------------------------------------------------------------------------
(* Password reset *)

\* user.reset_token = resetToken; user.token_expiry = ...; await user.save()
SaveResetToken(s, partition, id, resetToken, t) ==
    [s EXCEPT ![partition][id].reset_token = resetToken,
              ![partition][id].token_expiry = ExpiryFrom(t)]

\* transporter.verify(callback): the callback only writes to the console
VerifyLog(verifyOk) ==
    IF verifyOk THEN "SMTP Connection Successful!" ELSE "SMTP Connection Failed:"

\* await transporter.sendMail(...) inside the try block: a rejection goes to next(error)
MailOutcome(verifyOk, sendOk) ==
    IF sendOk
    THEN [NoResp EXCEPT !.status = 200, !.message = "Reset email sent!", !.log = VerifyLog(verifyOk)]
    ELSE [Throw("Error", "sendMail rejected") EXCEPT !.log = VerifyLog(verifyOk)]

RequestPasswordReset(email, role, verifyOk, sendOk) ==
    LET request == [NoReq EXCEPT !.handler = "requestPasswordReset", !.email = email,
                                 !.role = role, !.verifyOk = verifyOk, !.sendOk = sendOk]
        partition == ModelOf(role)
        user == FindOne(store[partition], email)
    IN  /\ IF user = NullRow
           THEN /\ Answer(request, Refuse(404, "Email not found"))
                /\ UNCHANGED <<store, nextToken>>
           ELSE /\ nextToken <= MaxTokens
                /\ store' = SaveResetToken(store, partition, user, nextToken, now)
                /\ nextToken' = nextToken + 1
                /\ Answer(request, MailOutcome(verifyOk, sendOk))
        /\ UNCHANGED <<now, lastPw, consumed, regs, clock>>

\* user.password = ...; user.reset_token = null; user.token_expiry = null; await user.save()
SaveReset(s, partition, id, hashedPassword) ==
    [s EXCEPT ![partition][id].password = hashedPassword,
              ![partition][id].reset_token = NullToken,
              ![partition][id].token_expiry = NullTime]

ResetPassword(token, role, newPassword, salt) ==
    LET request == [NoReq EXCEPT !.handler = "resetPassword", !.token = token,
                                 !.role = role, !.newPassword = newPassword]
        partition == ModelOf(role)
        user == FindOneByToken(store[partition], token, now)
    IN  /\ IF user = NullRow
           THEN /\ Answer(request, Refuse(400, "Invalid or expired token"))
                /\ UNCHANGED <<store, lastPw, consumed>>
           ELSE /\ store' = SaveReset(store, partition, user, Hash(newPassword, salt))
                /\ lastPw' = [lastPw EXCEPT ![partition][user] = newPassword]
                /\ consumed' = consumed \cup {token}
                /\ Answer(request, [NoResp EXCEPT !.status = 200,
                                                  !.message = "Password reset successful!"])
        /\ UNCHANGED <<now, nextToken, regs, clock>>

----------------------------------------------------------------------------
(* Time passes between requests.  The comparison token_expiry > now can     *)
(* change only when the clock crosses a stored expiry, so the clock is      *)
(* sampled at the stored expiries (the first instants a token is refused).  *)

Expiries(s) ==
    {s[x[1]][x[2]].token_expiry : x \in RowsOf(s)} \ {NullTime}

Instants(s) == Expiries(s)

Tick(t) ==
    /\ t \in Instants(store)
    /\ t > now
    /\ t <= MaxTime
    /\ now' = t
    /\ UNCHANGED <<store, req, resp, nextToken, lastPw, consumed, regs, clock>>

----------------------------------------------------------------------------
(* Every handler runs to completion before the next starts *)

TokenInputs == 0..MaxTokens

Next ==
    \/ \E e \in Emails, p \in Passwords, s \in Salts : RegisterJobSeeker(e, p, s)
    \/ \E e \in Emails, p \in Passwords, s \in Salts : RegisterEmployer(e, p, s)
    \/ \E e \in Emails, p \in Passwords : LoginJobSeeker(e, p)
    \/ \E e \in Emails, p \in Passwords : LoginEmployer(e, p)
    \/ \E e \in Emails, p \in Passwords : LoginAdmin(e, p)
    \/ \E e \in Emails, p \in Passwords : UnifiedLogin(e, p)
    \/ GetCurrentUser
    \/ \E c \in Passwords, n \in Passwords, s \in Salts : ChangePassword(c, n, s)
    \/ \E e \in Emails, r \in Roles, v \in BOOLEAN, m \in BOOLEAN : RequestPasswordReset(e, r, v, m)
    \/ \E t \in TokenInputs, r \in Roles, n \in Passwords, s \in Salts : ResetPassword(t, r, n, s)
    \/ \E t \in Instants(store) : Tick(t)

Spec == Init /\ [][Next]_vars

----------------------------------------------------------------------------
(* Concurrent registrations: a request yields at every await, so the three  *)
(* lookups and the create of one request interleave with another's.  The    *)
(* store holds no uniqueness constraint of its own.                         *)

PartitionOfKind(kind) == IF kind = "registerEmployer" THEN "Employer" ELSE "JobSeeker"
RoleOfKind(kind) == IF kind = "registerEmployer" THEN "employer" ELSE "jobSeeker"

\* a request arrives: const { email, password } = req.body
StartRegister(i, kind, email, password, salt) ==
    /\ regs[i].pc = "idle"
    /\ regs' = [regs EXCEPT ![i] = [IdleReg EXCEPT !.pc = "findJobSeeker", !.kind = kind,
                                       !.email = email, !.password = password, !.salt = salt]]
    /\ UNCHANGED <<store, now, req, resp, nextToken, lastPw, consumed, clock>>

\* const existingJobSeeker = await JobSeeker.findOne({ where: { email } })
FindJobSeeker(i) ==
    /\ regs[i].pc = "findJobSeeker"
    /\ clock' = clock + 1
    /\ regs' = [regs EXCEPT ![i].existingJobSeeker = FindOne(store["JobSeeker"], regs[i].email),
                            ![i].tJobSeeker = clock + 1,
                            ![i].pc = "findEmployer"]
    /\ UNCHANGED <<store, now, req, resp, nextToken, lastPw, consumed>>

\* const existingEmployer = await Employer.findOne({ where: { email } })
FindEmployer(i) ==
    /\ regs[i].pc = "findEmployer"
    /\ clock' = clock + 1
    /\ regs' = [regs EXCEPT ![i].existingEmployer = FindOne(store["Employer"], regs[i].email),
                            ![i].tEmployer = clock + 1,
                            ![i].pc = "findAdmin"]
    /\ UNCHANGED <<store, now, req, resp, nextToken, lastPw, consumed>>

\* const existingAdmin = await Admin.findOne(...); then the check, which throws or goes on
\* to hash the password
FindAdmin(i) ==
    LET existingAdmin == FindOne(store["Admin"], regs[i].email)
        request == [NoReq EXCEPT !.handler = regs[i].kind, !.email = regs[i].email,
                                 !.password = regs[i].password]
    IN  /\ regs[i].pc = "findAdmin"
        /\ clock' = clock + 1
        /\ IF EmailExists(regs[i].existingJobSeeker, regs[i].existingEmployer, existingAdmin)
           THEN /\ regs' = [regs EXCEPT ![i].existingAdmin = existingAdmin,
                                        ![i].tAdmin = clock + 1, ![i].pc = "done"]
                /\ Answer(request, AlreadyRegistered)
           ELSE /\ regs' = [regs EXCEPT ![i].existingAdmin = existingAdmin,
                                        ![i].tAdmin = clock + 1, ![i].pc = "create"]
                /\ UNCHANGED <<req, resp>>
        /\ UNCHANGED <<store, now, nextToken, lastPw, consumed>>

\* await Model.create(...); generateToken; res.status(201)
Create(i) ==
    LET partition == PartitionOfKind(regs[i].kind)
        request == [NoReq EXCEPT !.handler = regs[i].kind, !.email = regs[i].email,
                                 !.password = regs[i].password]
    IN  /\ regs[i].pc = "create"
        /\ clock' = clock + 1
        /\ store' = [store EXCEPT ![partition] =
                        Append(@, NewRow(regs[i].email, Hash(regs[i].password, regs[i].salt)))]
        /\ lastPw' = [lastPw EXCEPT ![partition] = Append(@, regs[i].password)]
        /\ regs' = [regs EXCEPT ![i].pc = "done", ![i].tCreate = clock + 1,
                                ![i].id = Len(store[partition]) + 1]
        /\ Answer(request, Created(store, partition, RoleOfKind(regs[i].kind), regs[i].email))
        /\ UNCHANGED <<now, nextToken, consumed>>

RegisterKinds == {"registerJobSeeker", "registerEmployer"}

NextRace ==
    \/ \E i \in Slots, k \in RegisterKinds, e \in Emails, p \in Passwords, s \in Salts :
          StartRegister(i, k, e, p, s)
    \/ \E i \in Slots : FindJobSeeker(i)
    \/ \E i \in Slots : FindEmployer(i)
    \/ \E i \in Slots : FindAdmin(i)
    \/ \E i \in Slots : Create(i)
    \/ \E e \in Emails, p \in Passwords : UnifiedLogin(e, p)

SpecRace == Init /\ [][NextRace]_vars

----------------------------------------------------------------------------
(* Vocabulary of the properties *)

Row(s, x) == s[x[1]][x[2]]

\* under Spec every step but Tick is one whole handler invocation, named by req'
Invocation(handler) == now' = now /\ req'.handler = handler

LoginHandlers == {"loginJobSeeker", "loginEmployer", "loginAdmin", "unifiedLogin"}

\* the partitions a login handler looks into
Probed(handler) ==
    CASE handler = "loginJobSeeker" -> {"JobSeeker"}
      [] handler = "loginEmployer" -> {"Employer"}
      [] handler = "loginAdmin" -> {"Admin"}
      [] handler = "unifiedLogin" -> Partitions
      [] OTHER -> {}

\* the rows of the probed partitions that hold the email of the last request
Matching(handler) ==
    {x \in RowsOf(store) : x[1] \in Probed(handler) /\ Row(store, x).email = req.email}

InvalidCredentials ==
    [status |-> 0, error |-> "Unauthorized", message |-> "Invalid credentials", role |-> "",
     user |-> NoUser, token |-> NoToken, log |-> ""]

----------------------------------------------------------------------------
(* C1: with registrations that each run to completion, a registration whose  *)
(* email is already held by a row of the JobSeeker, Employer or Admin        *)
(* partition (soft-deleted rows included) fails with BadRequest and creates  *)
(* no row, and no email is ever held by two rows of the three partitions.    *)

C1_Refused ==
    \A h \in RegisterKinds :
        (Invocation(h) /\ \E x \in RowsOf(store) : Row(store, x).email = req'.email)
            => (resp'.error = "BadRequest" /\ resp'.token = NoToken /\ store' = store)

\* C1: emails stay unique and a registration for a held email is refused
C1_UniqueEmail == [](EmailsUnique(store)) /\ [][C1_Refused]_vars

\* a registration was refused for an email held only by an Admin row
C1_Witness ==
    /\ req.handler = "registerEmployer"
    /\ resp.error = "BadRequest"
    /\ FindOne(store["Admin"], req.email) # NullRow
    /\ FindOne(store["JobSeeker"], req.email) = NullRow
    /\ FindOne(store["Employer"], req.email) = NullRow

----------------------------------------------------------------------------
(* C2: for a non-deleted row, a login with its email (the per-role login of  *)
(* its partition, or unifiedLogin) succeeds exactly when the password given  *)
(* is the one set last for that row (registration, changePassword or         *)
(* resetPassword); any other password is rejected with Unauthorized.         *)

C2_LoginIffCurrentPassword ==
    req.handler \in LoginHandlers =>
        \A x \in Matching(req.handler) :
            ~Row(store, x).deleted =>
                /\ (resp.status = 200) <=> (req.password = lastPw[x[1]][x[2]])
                /\ resp.status = 200 => (resp.user = [partition |-> x[1], id |-> x[2]])
                /\ resp.status # 200 => (resp.error = "Unauthorized" /\ resp.token = NoToken)

\* after a successful changePassword the previous password is rejected
C2_Witness ==
    /\ req.handler \in LoginHandlers
    /\ resp.error = "Unauthorized"
    /\ \E x \in Matching(req.handler) :
          /\ ~Row(store, x).deleted
          /\ Row(store, x).modified # NullTime
          /\ lastPw[x[1]][x[2]] = "pw2"
          /\ req.password = "pw1"

----------------------------------------------------------------------------
(* C3 as stated: resetPassword(t, r, newPassword) changes a row only if t is *)
(* the reset_token stored on a row of partition r and the time is strictly   *)
(* before that row's token_expiry, which is 15 minutes after the             *)
(* requestPasswordReset that issued t; otherwise the answer is the 400, as   *)
(* it is for every reuse of a consumed token.                                *)

C3_Issued ==
    Invocation("requestPasswordReset") =>
        \A x \in RowsOf(store) :
            Row(store', x) # Row(store, x) =>
                /\ Row(store', x).reset_token \notin {NullToken, Row(store, x).reset_token}
                /\ \A y \in RowsOf(store) : Row(store, y).reset_token # Row(store', x).reset_token
                /\ Row(store', x).token_expiry = now + 900000

C3_Holder(partition) ==
    {x \in RowsOf(store) :
        /\ x[1] = partition
        /\ Row(store, x).reset_token = req'.token
        /\ Row(store, x).token_expiry # NullTime
        /\ now < Row(store, x).token_expiry}

C3_Reset(partition) ==
    Invocation("resetPassword") =>
        /\ \A x \in RowsOf(store) : Row(store', x) # Row(store, x) => x \in C3_Holder(partition)
        /\ C3_Holder(partition) = {} => (resp'.status = 400 /\ store' = store)
        /\ req'.token \in consumed => (resp'.status = 400 /\ store' = store)

C3_PartitionAsStated(role) ==
    CASE role = "employer" -> "Employer"
      [] role = "jobSeeker" -> "JobSeeker"
      [] role = "admin" -> "Admin"
      [] OTHER -> ""

\* C3 as stated, with partition r read as the partition named by r
C3_AsStated == [][C3_Issued /\ C3_Reset(C3_PartitionAsStated(req'.role))]_vars

(* C3, amended: the partition searched is Employer when r is "employer" and  *)
(* JobSeeker for every other r; the rest as stated.                          *)

C3_PartitionSearched(role) == IF role = "employer" THEN "Employer" ELSE "JobSeeker"

\* C3, amended: with the partition the handler searches for r
C3_ResetOnlyWithLiveToken == [][C3_Issued /\ C3_Reset(C3_PartitionSearched(req'.role))]_vars

\* a token still stored on a row was refused at the instant of its expiry
C3_Witness ==
    /\ req.handler = "resetPassword"
    /\ resp.status = 400
    /\ \E x \in RowsOf(store) :
          /\ x[1] = C3_PartitionSearched(req.role)
          /\ Row(store, x).reset_token = req.token
          /\ Row(store, x).token_expiry = now

----------------------------------------------------------------------------
(* C4: a JobSeeker or Employer row whose deleted flag is set cannot log in   *)
(* through loginJobSeeker, loginEmployer or unifiedLogin, even with the      *)
(* right password: Unauthorized, no token.  loginAdmin and the Admin branch  *)
(* of unifiedLogin look at email and password only.                          *)

C4_DeletedCannotLogin ==
    /\ req.handler \in {"loginJobSeeker", "loginEmployer", "unifiedLogin"} =>
          \A x \in Matching(req.handler) :
              (x[1] # "Admin" /\ Row(store, x).deleted) =>
                  (resp.error = "Unauthorized" /\ resp.status # 200 /\ resp.token = NoToken)
    /\ req.handler \in {"loginAdmin", "unifiedLogin"} =>
          \A x \in Matching(req.handler) :
              x[1] = "Admin" =>
                  ((resp.status = 200 /\ resp.token # NoToken)
                      <=> (req.password = lastPw[x[1]][x[2]]))

\* a deleted row was refused although the password was right
C4_Witness ==
    /\ req.handler = "unifiedLogin"
    /\ resp.error = "Unauthorized"
    /\ \E x \in Matching(req.handler) :
          /\ x[1] # "Admin"
          /\ Row(store, x).deleted
          /\ req.password = lastPw[x[1]][x[2]]

----------------------------------------------------------------------------
(* C5: for every login handler, an email held by no row of the probed        *)
(* partitions and a wrong password for a non-deleted row are answered alike: *)
(* Unauthorized with the same message, nothing else in the response.         *)

C5_SameRefusal ==
    req.handler \in LoginHandlers =>
        /\ Matching(req.handler) = {} => resp = InvalidCredentials
        /\ \A x \in Matching(req.handler) :
              (~Row(store, x).deleted /\ req.password # lastPw[x[1]][x[2]])
                  => resp = InvalidCredentials

\* an unknown email was refused by unifiedLogin
C5_Witness ==
    /\ req.handler = "unifiedLogin"
    /\ Matching(req.handler) = {}
    /\ resp.error = "Unauthorized"

----------------------------------------------------------------------------
(* C6 as stated: once requestPasswordReset has persisted the reset token and *)
(* its expiry, the response is the 200 whether the connection check fails,   *)
(* the send fails or the mail is delivered; no mailer failure reaches the    *)
(* caller.                                                                   *)

C6_AlwaysSuccessOncePersisted ==
    [][(Invocation("requestPasswordReset") /\ store' # store)
          => (resp'.status = 200 /\ resp'.error = "")]_vars

----------------------------------------------------------------------------
(* C7: unifiedLogin decides in the first of JobSeeker, Employer, Admin that  *)
(* holds a row with the email: that row's deleted check (not for Admin) and  *)
(* password check alone give success or failure, later partitions are not    *)
(* consulted, and on success the role returned is that partition's (for      *)
(* Admin the stored label, "Admin" when there is none); also when the email  *)
(* is held in several partitions.                                            *)

C7_Order == <<"JobSeeker", "Employer", "Admin">>

C7_Holding ==
    {k \in 1..3 : \E i \in 1..Len(store[C7_Order[k]]) : store[C7_Order[k]][i].email = req.email}

C7_First == C7_Order[CHOOSE k \in C7_Holding : \A j \in C7_Holding : k <= j]

C7_Id ==
    CHOOSE i \in 1..Len(store[C7_First]) :
        /\ store[C7_First][i].email = req.email
        /\ \A j \in 1..(i - 1) : store[C7_First][j].email # req.email

C7_Label ==
    IF C7_First # "Admin" THEN C7_First
    ELSE IF store["Admin"][C7_Id].role # "" THEN store["Admin"][C7_Id].role
    ELSE "Admin"

\* C7: the response of unifiedLogin is decided by the first holder of the email
C7_UnifiedByPriority ==
    req.handler = "unifiedLogin" =>
        IF C7_Holding = {}
        THEN resp.error = "Unauthorized" /\ resp.token = NoToken
        ELSE /\ (resp.status = 200) <=>
                    /\ ~(C7_First # "Admin" /\ store[C7_First][C7_Id].deleted)
                    /\ req.password = lastPw[C7_First][C7_Id]
             /\ resp.status = 200 =>
                    /\ resp.user = [partition |-> C7_First, id |-> C7_Id]
                    /\ resp.role = C7_Label
                    /\ resp.token.id = C7_Id
             /\ resp.status # 200 => (resp.error = "Unauthorized" /\ resp.token = NoToken)

\* the email is held by a JobSeeker and an Employer row; the password given is the
\* Employer row's, not the JobSeeker row's, and the login was refused
C7_Witness ==
    /\ req.handler = "unifiedLogin"
    /\ resp.error = "Unauthorized"
    /\ \E i \in 1..Len(store["JobSeeker"]), j \in 1..Len(store["Employer"]) :
          /\ store["JobSeeker"][i].email = req.email
          /\ store["Employer"][j].email = req.email
          /\ ~store["JobSeeker"][i].deleted
          /\ ~store["Employer"][j].deleted
          /\ lastPw["JobSeeker"][i] # req.password
          /\ lastPw["Employer"][j] = req.password

----------------------------------------------------------------------------
(* C8: two concurrent registrations of an email no partition holds can both  *)
(* finish their three lookups before either creates its row, both pass the   *)
(* check and both insert, so that two rows hold one email.  Such a pair of   *)
(* rows arises in no other way: each of the two registrations looked up the  *)
(* other row's partition before that row was inserted.                       *)

C8_Created(i) == regs[i].tCreate > 0

C8_RowOf(i) == <<PartitionOfKind(regs[i].kind), regs[i].id>>

C8_LookedUpAt(i, partition) ==
    CASE partition = "JobSeeker" -> regs[i].tJobSeeker
      [] partition = "Employer" -> regs[i].tEmployer
      [] OTHER -> regs[i].tAdmin

\* C8: two rows hold one email only through overlapping registrations
C8_DuplicateOnlyByRace ==
    /\ \A i \in Slots : regs[i].pc = "create" =>
          ~EmailExists(regs[i].existingJobSeeker, regs[i].existingEmployer, regs[i].existingAdmin)
    /\ \A i \in Slots : C8_Created(i) =>
          \A x \in RowsOf(store) :
              (x # C8_RowOf(i) /\ Row(store, x).email = regs[i].email) =>
                  \E j \in Slots \ {i} :
                      /\ C8_Created(j)
                      /\ C8_RowOf(j) = x
                      /\ C8_LookedUpAt(i, x[1]) < regs[j].tCreate

\* both requests had finished all three lookups before either created its row
C8_Witness ==
    /\ ~EmailsUnique(store)
    /\ \A i \in Slots : C8_Created(i)
    /\ regs[1].email = regs[2].email
    /\ regs[1].tAdmin < regs[2].tCreate
    /\ regs[2].tAdmin < regs[1].tCreate
    /\ regs[2].tAdmin < regs[2].tCreate
    /\ regs[1].tAdmin < regs[1].tCreate

----------------------------------------------------------------------------
(* C9 as stated: a handler invocation that ends in an error outcome (an      *)
(* error passed to next, the 404 of requestPasswordReset, the 400 of         *)
(* resetPassword) leaves the store exactly as it was.                        *)

C9_ErrorLeavesStore == [][(now' = now /\ IsError(resp')) => store' = store]_vars

----------------------------------------------------------------------------
(* C10 as stated: every token issued by a registration or login carries a    *)
(* role that getCurrentUser and changePassword dispatch on ('admin',         *)
(* 'employer', 'jobSeeker'), so getCurrentUser with that token never fails   *)
(* with 'Invalid role' and returns the row the token was issued for.         *)

C10_IssuedRoleDispatches ==
    [][/\ resp'.token # NoToken => resp'.token.role \in {"admin", "employer", "jobSeeker"}
       /\ Invocation("getCurrentUser") =>
             (resp'.error # "Unauthorized" /\ resp'.user = resp.user)]_vars
====
